---- MODULE Spec2Model ----
(***************************************************************************)
(* A model of the knuth-bendix crate: prefix-encoded words (src/word.rs)   *)
(* over the Sum signature (src/sum.rs), the weight-based reduction         *)
(* ordering, one-sided unification, critical terms and the completion      *)
(* loop.                                                                   *)
(*                                                                         *)
(* A Symbol is a string: a member of Vars is Var(v), a member of Sum is    *)
(* Op(f).  A Word is the sequence `syms`.  Option<T> is a record           *)
(* [some, val]; Option<Ordering> is one of "Greater", "Less", "Equal",     *)
(* "None".  A BTreeMap<V, Word> is a function whose DOMAIN is its key set. *)
(***************************************************************************)
EXTENDS Integers, Sequences, FiniteSets, TLC

\* Bounds of the model.
MaxLen == 4
MaxArgs == 2
MaxBuildLen == 3
MaxAxioms == 2

\* The variables used as inputs and the operators of the Sum signature.
Vars == {"x", "y"}
Sum == {"Zero", "Negate", "Add"}
Symbols == Vars \cup Sum

NoneV == [some |-> FALSE, val |-> <<>>]
Some(x) == [some |-> TRUE, val |-> x]

-----------------------------------------------------------------------------
(* src/sum.rs: the operator table *)

min_weight == 1

Sum_arity(f) == IF f = "Zero" THEN 0 ELSE IF f = "Negate" THEN 1 ELSE 2

Sum_weight(f) == IF f = "Zero" THEN 1 ELSE IF f = "Negate" THEN 0 ELSE 1

\* #[derive(PartialOrd, Ord)] orders the variants as declared.
Sum_index(f) == IF f = "Zero" THEN 0 ELSE IF f = "Negate" THEN 1 ELSE 2

-----------------------------------------------------------------------------
(* src/word.rs: Symbol *)

arity(s) == IF s \in Sum THEN Sum_arity(s) ELSE 0

sym_weight(s) == IF s \in Sum THEN Sum_weight(s) ELSE min_weight

-----------------------------------------------------------------------------
(* src/word.rs: Word construction and inspection *)

RECURSIVE concat(_)
concat(ws) == IF ws = <<>> THEN <<>> ELSE Head(ws) \o concat(Tail(ws))

Word_var(v) == <<v>>

\* Word::op pushes the operator and extends with every argument's symbols.
Word_op(f, args) == <<f>> \o concat(args)

RECURSIVE weight(_)
weight(w) == IF w = <<>> THEN 0 ELSE sym_weight(Head(w)) + weight(Tail(w))

n(w, v) == Cardinality({i \in 1..Len(w) : w[i] = v})

word_vars(w) == {w[i] : i \in 1..Len(w)} \cap Vars

RECURSIVE balance(_, _)
balance(w, nsyms) ==
    IF w = <<>> THEN nsyms ELSE balance(Tail(w), nsyms + arity(Head(w)) - 1)

is_well_formed(w) == balance(w, 1) = 0

scan_one(syms, i, nsyms) == i + 1

\* The inner loop of Subwords::next: i is the 0-based cursor; a cursor past
\* the end reads arity 0.  The value is the cursor after the subword.
RECURSIVE scan(_, _, _)
scan(syms, i, nsyms) ==
    IF nsyms > 0
    THEN scan(syms, i + 1,
              (nsyms - 1) + (IF i < Len(syms) THEN arity(syms[i + 1]) ELSE 0))
    ELSE i

\* The words a Subwords iterator yields up to its first None.
RECURSIVE subwords_from(_, _, _)
subwords_from(syms, i, nargs) ==
    IF nargs > 0
    THEN LET e == scan(syms, i, 1)
         IN  IF e <= Len(syms)
             THEN <<SubSeq(syms, i + 1, e)>> \o subwords_from(syms, e, nargs - 1)
             ELSE <<>>
    ELSE <<>>

subwords(w) == subwords_from(w, 1, IF w = <<>> THEN 0 ELSE arity(Head(w)))

subst_mapped_only(w, m) ==
    concat([i \in 1..Len(w) |-> IF w[i] \in DOMAIN m THEN m[w[i]] ELSE <<>>])

subst(w, m) ==
    concat([i \in 1..Len(w) |-> IF w[i] \in DOMAIN m THEN m[w[i]] ELSE <<w[i]>>])

-----------------------------------------------------------------------------
(* src/word.rs: impl PartialOrd for Word *)

RECURSIVE partial_cmp(_, _)
RECURSIVE iter_partial_cmp(_, _)

cmp_heavier(self, other) ==
    IF \E v \in word_vars(self) \cup word_vars(other) : n(self, v) < n(other, v)
    THEN "None" ELSE "Greater"

same_counts_unchecked(self, other) == TRUE

same_counts(self, other) ==
    \A v \in word_vars(self) \cup word_vars(other) : n(self, v) = n(other, v)

cmp_lighter_unchecked(self, other) == "Less"

cmp_lighter(self, other) ==
    IF \E v \in word_vars(self) \cup word_vars(other) : n(self, v) > n(other, v)
    THEN "None" ELSE "Less"

cmp_first(self, other) ==
    IF self = <<>> \/ other = <<>> THEN "None"
    ELSE LET f == Head(self)
             g == Head(other)
         IN  IF f \in Sum /\ g \in Vars THEN "Greater"
             ELSE IF f \in Vars /\ g \in Sum THEN "Less"
             ELSE IF f \in Vars /\ g \in Vars THEN "Equal"
             ELSE IF Sum_index(f) > Sum_index(g) THEN "Greater"
             ELSE IF f = g THEN iter_partial_cmp(subwords(self), subwords(other))
             ELSE "Less"

partial_cmp(self, other) ==
    LET sw == weight(self)
        ow == weight(other)
    IN  IF sw > ow THEN cmp_heavier(self, other)
        ELSE IF sw = ow
        THEN IF same_counts(self, other) THEN cmp_first(self, other) ELSE "None"
        ELSE cmp_lighter(self, other)

\* Iterator::partial_cmp: the first pair that is not Equal decides; a shorter
\* sequence that is a prefix of the other is Less.
iter_partial_cmp(xs, ys) ==
    IF xs = <<>> THEN (IF ys = <<>> THEN "Equal" ELSE "Less")
    ELSE IF ys = <<>> THEN "Greater"
    ELSE LET c == partial_cmp(Head(xs), Head(ys))
         IN  IF c = "Equal" THEN iter_partial_cmp(Tail(xs), Tail(ys)) ELSE c

eq(self, other) == partial_cmp(self, other) = "Equal"

-----------------------------------------------------------------------------
(* src/word.rs: Word::unify *)

merged(vmap, sub) ==
    [v \in DOMAIN vmap \cup DOMAIN sub |-> IF v \in DOMAIN sub THEN sub[v] ELSE vmap[v]]

insert_all_overwrite(vmap, sub) == Some(merged(vmap, sub))

insert_all_fresh(vmap, sub) ==
    IF DOMAIN vmap \cap DOMAIN sub # {} THEN NoneV ELSE Some(merged(vmap, sub))

\* The loop over sub.iter(): every binding is inserted; an older binding of
\* the same variable that is != the new one ends unify with None.
insert_all(vmap, sub) ==
    IF \E v \in DOMAIN vmap \cap DOMAIN sub : ~eq(vmap[v], sub[v])
    THEN NoneV
    ELSE Some(merged(vmap, sub))

RECURSIVE unify(_, _)
RECURSIVE unify_zip(_, _, _)

unify(self, other) ==
    IF self = <<>> \/ other = <<>> THEN NoneV
    ELSE IF Head(self) \in Vars THEN Some([v \in {Head(self)} |-> other])
    ELSE IF Head(other) \in Sum /\ Head(self) = Head(other)
         THEN unify_zip(subwords(self), subwords(other), [v \in {} |-> <<>>])
         ELSE NoneV

\* for (s, t) in self.subwords().zip(other.subwords())
unify_zip(ss, ts, vmap) ==
    IF ss = <<>> \/ ts = <<>> THEN Some(vmap)
    ELSE LET sub == unify(Head(ss), Head(ts))
         IN  IF sub.some
             THEN LET m == insert_all(vmap, sub.val)
                  IN  IF m.some THEN unify_zip(Tail(ss), Tail(ts), m.val) ELSE NoneV
             ELSE NoneV

-----------------------------------------------------------------------------
(* src/word.rs: critical_term *)

\* for ts in t.subwords(): skip variables, try ts.unify(u) then u.unify(ts).
RECURSIVE scan_subwords(_, _, _)
scan_subwords(tss, t, u) ==
    IF tss = <<>> THEN NoneV
    ELSE LET ts == Head(tss)
         IN  IF ts # <<>> /\ Head(ts) \in Vars THEN scan_subwords(Tail(tss), t, u)
             ELSE IF unify(ts, u).some THEN Some(subst(t, unify(ts, u).val))
             ELSE IF unify(u, ts).some THEN Some(subst(u, unify(u, ts).val))
             ELSE scan_subwords(Tail(tss), t, u)

critical_term(t, u) ==
    IF t # <<>> /\ Head(t) \in Vars THEN NoneV
    ELSE IF u # <<>> /\ Head(u) \in Vars THEN NoneV
    ELSE IF unify(t, u).some THEN Some(subst(t, unify(t, u).val))
    ELSE IF unify(u, t).some THEN Some(subst(u, unify(u, t).val))
    ELSE LET r == scan_subwords(subwords(t), t, u)
         IN  IF r.some THEN r ELSE scan_subwords(subwords(u), u, t)

-----------------------------------------------------------------------------
(* The input words: every Word that Word::var and Word::op build, with the  *)
(* argument count of each operator, of at most MaxLen symbols.              *)

RECURSIVE TermsOfLen(_)
TermsOfLen(len) ==
    IF len < 1 THEN {}
    ELSE IF len = 1
    THEN {Word_var(v) : v \in Vars} \cup {Word_op(f, <<>>) : f \in {g \in Sum : Sum_arity(g) = 0}}
    ELSE {Word_op(f, <<t>>) : f \in {g \in Sum : Sum_arity(g) = 1}, t \in TermsOfLen(len - 1)}
         \cup UNION {{Word_op(f, <<t1, t2>>) :
                         f \in {g \in Sum : Sum_arity(g) = 2},
                         t1 \in TermsOfLen(k), t2 \in TermsOfLen(len - 1 - k)} :
                     k \in 1..(len - 2)}

Words == UNION {TermsOfLen(len) : len \in 1..MaxLen}

-----------------------------------------------------------------------------
(* State *)

VARIABLES
    a,        \* self / t: the first operand of the call
    b,        \* other / u: the second operand of the call
    pc,       \* the call that produced the current results
    ord,      \* Option<Ordering> returned by partial_cmp
    vmap,     \* Option<BTreeMap<V, Word>> returned by unify
    out,      \* Option<Word> returned by subst or critical_term
    same,     \* bool returned by ==
    subs,     \* Vec<Word> collected from the Subwords iterator
    input,    \* knuth_bendix: the argument `axioms`
    axioms,   \* knuth_bendix: the local worklist
    rules,    \* knuth_bendix: the rules pushed so far
    result    \* knuth_bendix: the returned Option<Vec<Rule>>

vars == <<a, b, pc, ord, vmap, out, same, subs, input, axioms, rules, result>>

kb_vars == <<input, axioms, rules, result>>

KBIdle ==
    /\ input = <<>>
    /\ axioms = <<>>
    /\ rules = <<>>
    /\ result = NoneV

-----------------------------------------------------------------------------
(* Calls of the word operations on a pair of well-formed words *)

Init ==
    /\ a \in Words
    /\ b \in Words
    /\ pc = "init"
    /\ ord = "unset"
    /\ vmap = NoneV
    /\ out = NoneV
    /\ same = FALSE
    /\ subs = <<>>
    /\ KBIdle

CallPartialCmp ==
    /\ pc' = "partial_cmp"
    /\ ord' = partial_cmp(a, b)
    /\ vmap' = NoneV
    /\ out' = NoneV
    /\ same' = FALSE
    /\ subs' = <<>>
    /\ UNCHANGED <<a, b, kb_vars>>

CallEq ==
    /\ pc' = "eq"
    /\ ord' = "unset"
    /\ vmap' = NoneV
    /\ out' = NoneV
    /\ same' = eq(a, b)
    /\ subs' = <<>>
    /\ UNCHANGED <<a, b, kb_vars>>

CallUnify ==
    /\ pc' = "unify"
    /\ ord' = "unset"
    /\ vmap' = unify(a, b)
    /\ out' = NoneV
    /\ same' = FALSE
    /\ subs' = <<>>
    /\ UNCHANGED <<a, b, kb_vars>>

\* a.subst(&s) with the substitution the preceding unify returned.
CallSubst ==
    /\ pc = "unify"
    /\ vmap.some
    /\ pc' = "subst"
    /\ out' = Some(subst(a, vmap.val))
    /\ UNCHANGED <<a, b, ord, vmap, same, subs, kb_vars>>

CallCriticalTerm ==
    /\ pc' = "critical_term"
    /\ ord' = "unset"
    /\ vmap' = NoneV
    /\ out' = critical_term(a, b)
    /\ same' = FALSE
    /\ subs' = <<>>
    /\ UNCHANGED <<a, b, kb_vars>>

Next ==
    \/ CallPartialCmp
    \/ CallEq
    \/ CallUnify
    \/ CallSubst
    \/ CallCriticalTerm

Spec == Init /\ [][Next]_vars

-----------------------------------------------------------------------------
(* Sequences of calls: every call starts from a pair of kept words, and a   *)
(* word that a call returned may be kept as the next first operand.  Words  *)
(* of more than MaxLen symbols are not kept.                                *)

\* The well-formed words a caller passes as values of a substitution.
SigmaWords ==
    {Word_var("y"),
     Word_op("Zero", <<>>),
     Word_op("Negate", <<Word_var("x")>>),
     Word_op("Add", <<Word_var("x"), Word_var("y")>>)}

Sigmas == UNION {[D -> SigmaWords] : D \in (SUBSET Vars) \ {{}}}

\* The arguments of the call Word::op(f, ..) with f.arity() of the operands.
OpArgs(f) ==
    IF Sum_arity(f) = 0 THEN <<>> ELSE IF Sum_arity(f) = 1 THEN <<a>> ELSE <<a, b>>

\* a.subwords().collect()
OpsSubwords ==
    /\ pc = "init"
    /\ pc' = "subwords"
    /\ subs' = subwords(a)
    /\ UNCHANGED <<a, b, ord, vmap, out, same, kb_vars>>

\* Word::op(f, args).subwords().collect()
OpsOpSubwords ==
    /\ pc = "init"
    /\ \E f \in Sum :
        /\ out' = Some(Word_op(f, OpArgs(f)))
        /\ subs' = subwords(Word_op(f, OpArgs(f)))
    /\ pc' = "op_subwords"
    /\ UNCHANGED <<a, b, ord, vmap, same, kb_vars>>

OpsUnify == pc = "init" /\ CallUnify

OpsSubst == CallSubst

\* a.subst(&sigma) with a substitution of the caller.
OpsSubstSigma ==
    /\ pc = "init"
    /\ \E sigma \in Sigmas :
        /\ vmap' = Some(sigma)
        /\ out' = Some(subst(a, sigma))
    /\ pc' = "subst_sigma"
    /\ UNCHANGED <<a, b, ord, same, subs, kb_vars>>

OpsCriticalTerm == pc = "init" /\ CallCriticalTerm

Kept(w) ==
    /\ Len(w) <= MaxLen
    /\ a' = w
    /\ pc' = "init"
    /\ ord' = "unset"
    /\ vmap' = NoneV
    /\ out' = NoneV
    /\ same' = FALSE
    /\ subs' = <<>>
    /\ UNCHANGED <<b, kb_vars>>

KeepOut ==
    /\ pc \in {"subst", "subst_sigma", "critical_term"}
    /\ out.some
    /\ Kept(out.val)

KeepSubword ==
    /\ pc = "subwords"
    /\ \E i \in 1..Len(subs) : Kept(subs[i])

KeepBinding ==
    /\ pc = "unify"
    /\ vmap.some
    /\ \E v \in DOMAIN vmap.val : Kept(vmap.val[v])

\* The operands change places.
Swap ==
    /\ pc = "init"
    /\ a' = b
    /\ b' = a
    /\ UNCHANGED <<pc, ord, vmap, out, same, subs, kb_vars>>

NextOps ==
    \/ OpsSubwords
    \/ OpsOpSubwords
    \/ OpsUnify
    \/ OpsSubst
    \/ OpsSubstSigma
    \/ OpsCriticalTerm
    \/ KeepOut
    \/ KeepSubword
    \/ KeepBinding
    \/ Swap

SpecOps == Init /\ [][NextOps]_vars

-----------------------------------------------------------------------------
(* Construction of words by calls of Word::var and Word::op.  The two most  *)
(* recently kept words are a and b; the arguments of a call are drawn from  *)
(* them, in any number up to MaxArgs.                                       *)

NoResults ==
    /\ ord = "unset"
    /\ vmap = NoneV
    /\ out = NoneV
    /\ same = FALSE
    /\ subs = <<>>

InitBuild ==
    /\ a \in {Word_var(v) : v \in Vars}
    /\ b \in {Word_var(v) : v \in Vars}
    /\ pc = "Word::var"
    /\ NoResults
    /\ KBIdle

BuildVar ==
    \E v \in Vars :
        /\ pc' = "Word::var"
        /\ a' = Word_var(v)
        /\ b' \in {a, b}
        /\ UNCHANGED <<ord, vmap, out, same, subs, kb_vars>>

BuildOp ==
    \E f \in Sum, k \in 0..MaxArgs :
        \E args \in [1..k -> {a, b}] :
            /\ Len(Word_op(f, args)) <= MaxBuildLen
            /\ pc' = "Word::op"
            /\ a' = Word_op(f, args)
            /\ b' \in {a, b}
            /\ UNCHANGED <<ord, vmap, out, same, subs, kb_vars>>

NextBuild ==
    \/ BuildVar
    \/ BuildOp

SpecBuild == InitBuild /\ [][NextBuild]_vars

-----------------------------------------------------------------------------
(* src/word.rs: knuth_bendix *)

\* The sides of the axioms given to knuth_bendix.
AxiomSides ==
    {Word_var("x"), Word_var("y"), Word_op("Negate", <<Word_var("x")>>)}

Axioms == AxiomSides \X AxiomSides

InitKB ==
    /\ input \in UNION {[1..len -> Axioms] : len \in 0..MaxAxioms}
    /\ axioms = input
    /\ rules = <<>>
    /\ result = NoneV
    /\ pc = "kb_loop"
    /\ a = <<>>
    /\ b = <<>>
    /\ NoResults

\* A loop body that reads the last axiom and leaves it on the worklist
\* (last() for pop()); the rules it goes on pushing are cut off after
\* MaxAxioms + 1 of them.
KBStepPeek ==
    /\ pc = "kb_loop"
    /\ axioms # <<>>
    /\ Len(rules) <= MaxAxioms
    /\ rules' = Append(rules, axioms[Len(axioms)])
    /\ UNCHANGED <<a, b, pc, ord, vmap, out, same, subs, input, axioms, result>>

\* while let Some(axiom) = axioms.pop() { rules.push(axiom); }
KBStep ==
    /\ pc = "kb_loop"
    /\ axioms # <<>>
    /\ axioms' = SubSeq(axioms, 1, Len(axioms) - 1)
    /\ rules' = Append(rules, axioms[Len(axioms)])
    /\ UNCHANGED <<a, b, pc, ord, vmap, out, same, subs, input, result>>

\* Some(rules)
KBReturn ==
    /\ pc = "kb_loop"
    /\ axioms = <<>>
    /\ result' = Some(rules)
    /\ pc' = "kb_done"
    /\ UNCHANGED <<a, b, ord, vmap, out, same, subs, input, axioms, rules>>

NextKB ==
    \/ KBStep
    \/ KBReturn

SpecKB == InitKB /\ [][NextKB]_vars

\* The loop of a running call always takes its next step.
FairSpecKB == SpecKB /\ WF_vars(NextKB)

-----------------------------------------------------------------------------
(* Vocabulary of the properties *)

\* Every contiguous slice of w, the empty one included.
Slices(w) == {SubSeq(w, i, j) : i \in 1..(Len(w) + 1), j \in 0..Len(w)}

\* w is the prefix encoding of exactly one complete tree.
IsTerm(w) == w # <<>> /\ scan(w, 0, 1) = Len(w)

\* w is one of the words that var and op with matching argument counts
\* build: an operator followed by the encodings of exactly arity-many trees.
DecodesToOneTree(w) == w \in TermsOfLen(Len(w))

\* The subterms of w at every depth, w itself included.
Subterms(w) == {s \in Slices(w) : IsTerm(s)}

\* w is l with some substitution of l's variables by well-formed words
\* applied; the words substituted are contiguous in w, so they are subterms
\* of w.
IsInstance(w, l) == \E sigma \in [word_vars(l) -> Subterms(w)] : subst(l, sigma) = w

\* A rule with left-hand side l rewrites c, at the root or below it.
Reducible(c, l) == \E s \in Subterms(c) : IsInstance(s, l)

\* The subterm of the well-formed word w that starts at position i.
SubtermAt(w, i) == CHOOSE s \in Subterms(w) : \E j \in i..Len(w) : s = SubSeq(w, i, j)

\* s and u overlap: one of the two one-sided unifications succeeds.
Overlaps(s, u) == unify(s, u).some \/ unify(u, s).some

\* The unifier of the first attempt that succeeds, s.unify(u) before u.unify(s).
OverlapUnifier(s, u) == IF unify(s, u).some THEN unify(s, u).val ELSE unify(u, s).val

\* The positions of the non-variable proper subwords of t that overlap u.
OverlapPositions(t, u) ==
    {i \in 2..Len(t) : t[i] \in Sum /\ Overlaps(SubtermAt(t, i), u)}

\* s maps every variable it binds that occurs in w to itself.
Fixes(s, w) == \A v \in DOMAIN s \cap word_vars(w) : s[v] = <<v>>

-----------------------------------------------------------------------------
(* Properties of the word operations, under Spec *)

\* C2: partial_cmp is a strict partial order on well-formed words: a word
\* compares Equal to itself, a > b exactly when b < a, and a > b with b > c
\* gives a > c.
C2_StrictPartialOrder ==
    pc = "partial_cmp" =>
        /\ (a = b => ord = "Equal")
        /\ (ord = "Greater" <=> partial_cmp(b, a) = "Less")
        /\ (ord = "Greater" =>
                \A c \in Words :
                    partial_cmp(b, c) = "Greater" => partial_cmp(a, c) = "Greater")

\* A chain a > b > c in which a > b is decided by the argument subwords.
C2_Witness ==
    /\ pc = "partial_cmp"
    /\ ord = "Greater"
    /\ weight(a) = weight(b)
    /\ Head(a) = Head(b)
    /\ \E c \in Words : partial_cmp(b, c) = "Greater"

\* C3 as stated: whenever a.unify(b) is Some(s), a.subst(s) and b.subst(s)
\* are ordering-Equal.
C3_UnifierEqualisesBoth ==
    (pc = "unify" /\ vmap.some) => eq(subst(a, vmap.val), subst(b, vmap.val))

\* C3 amended: whenever a.unify(b) is Some(s), a.subst(s) is ordering-Equal
\* to b, and a.subst(s) is ordering-Equal to b.subst(s) exactly when s maps
\* every variable it binds that occurs in b to itself.
C3_UnifierEqualisesSelfToOther ==
    (pc = "unify" /\ vmap.some) =>
        /\ eq(subst(a, vmap.val), b)
        /\ (eq(subst(a, vmap.val), subst(b, vmap.val)) <=> Fixes(vmap.val, b))

\* A unifier that binds a variable occurring twice and leaves b unchanged.
C3_Witness ==
    /\ pc = "unify"
    /\ vmap.some
    /\ \E v \in DOMAIN vmap.val : n(a, v) = 2
    /\ DOMAIN vmap.val \cap word_vars(b) = {}
    /\ a # b

\* C4: a.unify(b) is Some(s) only if a.subst(s) is symbol for symbol b; a
\* variable of a that meets two different subwords of b makes the result None.
C4_UnifyMatchesOther ==
    /\ (pc = "unify" /\ vmap.some) => subst(a, vmap.val) = b
    /\ pc = "subst" => out = Some(b)
    /\ (/\ pc = "unify"
        /\ Head(a) = "Add"
        /\ Head(b) = "Add"
        /\ \E v \in Vars : subwords(a) = <<Word_var(v), Word_var(v)>>
        /\ subwords(b)[1] # subwords(b)[2]) => ~vmap.some

\* A repeated variable bound consistently, and subst applied to a.
C4_Witness ==
    /\ pc = "subst"
    /\ \E v \in DOMAIN vmap.val : n(a, v) = 2
    /\ a # b

\* C5: if some substitution sigma of a's variables gives a.subst(sigma) = b,
\* a.unify(b) is Some.
C5_UnifyComplete ==
    (pc = "unify" /\ IsInstance(b, a)) => vmap.some

\* An instance that needs the same binding at two positions.
C5_Witness ==
    /\ pc = "unify"
    /\ IsInstance(b, a)
    /\ \E v \in Vars : n(a, v) = 2
    /\ a # b

\* C6: whenever critical_term(t, u) is Some(c), c is reducible by a rule with
\* left-hand side t and by a rule with left-hand side u.
C6_CriticalTermReducible ==
    (pc = "critical_term" /\ out.some) =>
        Reducible(out.val, a) /\ Reducible(out.val, b)

\* C10: == holds between two well-formed words exactly when their symbol
\* sequences are identical.
C10_EqIsIdentity ==
    pc = "eq" => (same <=> a = b)

\* Two different words with the same shape, weight and number of variables.
C10_Witness ==
    /\ pc = "eq"
    /\ ~same
    /\ Len(a) = Len(b)
    /\ Len(a) > 1
    /\ \A i \in 1..Len(a) : (a[i] \in Vars <=> b[i] \in Vars) /\ (a[i] \in Sum => a[i] = b[i])

\* C13: when t and u are operator-headed and do not unify either way, and a
\* non-variable proper subword of t, at any depth, overlaps u, then
\* critical_term(t, u) is Some(c) with c the whole of t under the unifier of
\* the first such subword.
C13_EverySubwordExamined ==
    (/\ pc = "critical_term"
     /\ Head(a) \in Sum
     /\ Head(b) \in Sum
     /\ ~unify(a, b).some
     /\ ~unify(b, a).some
     /\ OverlapPositions(a, b) # {}) =>
        LET i == CHOOSE k \in OverlapPositions(a, b) :
                     \A m \in OverlapPositions(a, b) : k <= m
        IN  out = Some(subst(a, OverlapUnifier(SubtermAt(a, i), b)))

\* C14: every well-formed word is strictly Greater than each of its argument
\* subwords; in particular negate(w) > w for every well-formed w.
C14_GreaterThanArguments ==
    (/\ pc = "partial_cmp"
     /\ \E i \in 1..Len(subwords(a)) : subwords(a)[i] = b) => ord = "Greater"

-----------------------------------------------------------------------------
(* Properties of sequences of calls, under SpecOps *)

\* C12: Word::op(f, args).subwords() yields the words of args, in order; for
\* every well-formed word the subwords are as many as the arity of its first
\* symbol, each well-formed, and together they are the word without its
\* first symbol.
C12_SubwordsInvertOp ==
    /\ pc = "op_subwords" => subs = OpArgs(Head(out.val))
    /\ pc = "subwords" =>
        /\ Len(subs) = arity(Head(a))
        /\ \A i \in 1..Len(subs) : is_well_formed(subs[i]) /\ DecodesToOneTree(subs[i])
        /\ concat(subs) = Tail(a)

\* Two arguments of more than one symbol each are given back.
C12_Witness ==
    /\ pc = "op_subwords"
    /\ Len(subs) = 2
    /\ Len(subs[1]) > 1
    /\ Len(subs[2]) > 1

\* C15: if a > b then a.subst(sigma) > b.subst(sigma), for every substitution
\* sigma of well-formed words.
C15_StableUnderSubst ==
    (pc = "subst_sigma" /\ partial_cmp(a, b) = "Greater") =>
        partial_cmp(out.val, subst(b, vmap.val)) = "Greater"

\* w passes is_well_formed() and is the prefix encoding of one tree.
WellFormedTree(w) == is_well_formed(w) /\ IsTerm(w)

\* C16: starting from well-formed words, every word that subwords(), unify(),
\* subst() with well-formed values and critical_term() return, in any
\* sequence of calls, is well-formed.
C16_WellFormedClosed ==
    /\ WellFormedTree(a)
    /\ WellFormedTree(b)
    /\ pc = "subwords" => \A i \in 1..Len(subs) : WellFormedTree(subs[i])
    /\ (pc = "unify" /\ vmap.some) =>
           \A v \in DOMAIN vmap.val : WellFormedTree(vmap.val[v])
    /\ (pc \in {"subst", "subst_sigma", "critical_term"} /\ out.some) =>
           WellFormedTree(out.val)

\* A critical term longer than both words it was found for.
C16_Witness ==
    /\ pc = "critical_term"
    /\ out.some
    /\ Len(out.val) > Len(a)
    /\ Len(out.val) > Len(b)

-----------------------------------------------------------------------------
(* Properties of construction, under SpecBuild *)

\* C1: every Word that Word::var or Word::op returns satisfies
\* is_well_formed(); a call of Word::op with the wrong number of arguments
\* returns no Word.
C1_BuiltWordsWellFormed ==
    pc \in {"Word::var", "Word::op"} => is_well_formed(a) /\ is_well_formed(b)

\* C11: is_well_formed() is true exactly when the symbol sequence is the
\* prefix encoding of one complete tree, for every sequence that calls of
\* Word::var and Word::op (with any argument count) can build.
C11_WellFormedIsOneTree ==
    pc \in {"Word::var", "Word::op"} =>
        /\ (is_well_formed(a) <=> DecodesToOneTree(a))
        /\ (is_well_formed(b) <=> DecodesToOneTree(b))

-----------------------------------------------------------------------------
(* Properties of knuth_bendix, under SpecKB and FairSpecKB *)

\* C7: every rule (lhs, rhs) of the returned rule set has lhs > rhs.
C7_RulesOriented ==
    (pc = "kb_done" /\ result.some) =>
        \A i \in 1..Len(result.val) :
            partial_cmp(result.val[i][1], result.val[i][2]) = "Greater"

\* C8: when an axiom with Incomparable sides is popped, the call returns
\* None; every axiom of the input is popped and no rule rewrites its sides.
C8_IncomparableIsStuck ==
    (/\ pc = "kb_done"
     /\ \E i \in 1..Len(input) : partial_cmp(input[i][1], input[i][2]) = "None")
        => ~result.some

\* C9: every call of knuth_bendix returns.
C9_Terminates == <>(pc = "kb_done")

\* A call that worked through a worklist of MaxAxioms axioms has returned.
C9_Witness ==
    /\ pc = "kb_done"
    /\ Len(input) = MaxAxioms
    /\ result.some
    /\ Len(result.val) = MaxAxioms

====
